---- MODULE Spec2Model ----
(***************************************************************************)
(* Model of the bridge monitor's reconciliation engine (src/main.go,       *)
(* second program text, lines 507-1117) over the table "meson"             *)
(* (src/database/db_init.go).                                              *)
(*                                                                         *)
(* One task per configured chain (main starts one listenEvents goroutine   *)
(* per chain) hands the logs of its chain to processEvent, which decodes   *)
(* the request identifier and calls meson_handle.  meson_handle is a       *)
(* read (FindMesonByReqID) followed by a write (InsertMeson or             *)
(* UpdateMeson) or by the "ChainB already has a value" branch; nothing     *)
(* serialises two tasks between the read and the write, so the read and    *)
(* the write are separate steps of the model.                              *)
(*                                                                         *)
(* The same module holds the chain scanner (connectAndListen with its      *)
(* checkpoint file, specification SpecScan), the timeout sweep             *)
(* (checkDatabase, specification SpecSweep) and the decoders of the        *)
(* request identifier at the width of the program's integers               *)
(* (specification SpecCodec).                                              *)
(***************************************************************************)
EXTENDS Integers, Sequences, FiniteSets, TLC

\* ------------------------------------------------------------- bounds
\* meson_handle calls the chain tasks make, all together
MaxCalls == 3
\* store operations that fail (connection error, "conn busy")
MaxFaults == 1

\* ------------------------------------------------- program constants
\* the canonical precision of getAmountFromReqID
CanonicalDecimals == 6

\* ------------------------------------------------------ configuration
\* config.Chains: the keys are the chain names (never the empty string)
Chains == {"Ethereum", "BSC"}
\* chainConfig.MesonIndex of every chain
MesonIndex == 2
\* chainConfig.TokenDecimal is drawn from this set per chain
TokenDecimals == {5, 6, 7}

EventNames == {"TokenBurnExecuted", "TokenMintExecuted"}

\* vLog.TxHash: the bridge contract executes a request's burn once and its
\* mint once per chain, so a chain holds one transaction per event kind and
\* request; a log fetched again carries the same hash.
TxHash(c, eventName) ==
  (IF c = "Ethereum" THEN "0xe" ELSE "0xb")
    \o (IF eventName = "TokenBurnExecuted" THEN "1" ELSE "2")

\* ------------------------------------------- integers of 64 and 256 bits
\* A uint64 is its 8 bytes and a 256-bit integer its 32 bytes, the most
\* significant byte first (common.Hash.Bytes, big.Int.SetBytes).
Zeros(n) == [i \in 1..n |-> 0]

\* the len bytes of a number below 2^31
RECURSIVE BytesOf(_, _)
BytesOf(n, len) ==
  IF len = 0 THEN <<>> ELSE Append(BytesOf(n \div 256, len - 1), n % 256)

ToUint64(n) == BytesOf(n, 8)

\* the number of a byte string that denotes less than 2^31
RECURSIVE NumberOfBytes(_)
NumberOfBytes(b) ==
  IF b = <<>> THEN 0
  ELSE 256 * NumberOfBytes(SubSeq(b, 1, Len(b) - 1)) + b[Len(b)]

\* big.Int.Rsh by a multiple of 8 bits
Rsh(x, n) == SubSeq(x, 1, Len(x) - (n \div 8))

\* big.Int.Uint64: the low 64 bits
Uint64(x) ==
  [i \in 1..8 |-> IF i + Len(x) - 8 >= 1 THEN x[i + Len(x) - 8] ELSE 0]

\* u & (2^(8*bytes) - 1): the masks 0xFF, 0xFFFFFFFFFF, 0xFFFFFFFFFFFFFFFF
And64(u, bytes) == [i \in 1..8 |-> IF i > 8 - bytes THEN u[i] ELSE 0]

\* uint8(u)
Uint8(u) == u[8]

\* byte k of a uint64, byte 0 the least significant
Digit(u, k) == u[8 - k]

\* the products of the bytes of a and b that have weight 256^k
RECURSIVE ColumnSum(_, _, _, _)
ColumnSum(a, b, k, i) ==
  IF i > k THEN 0
  ELSE Digit(a, i) * Digit(b, k - i) + ColumnSum(a, b, k, i + 1)

\* the same with the carry of the columns below
RECURSIVE Column(_, _, _)
Column(a, b, k) ==
  ColumnSum(a, b, k, 0) + (IF k = 0 THEN 0 ELSE Column(a, b, k - 1) \div 256)

\* a * b of two uint64: the product modulo 2^64
MulU64(a, b) ==
  << Column(a, b, 7) % 256, Column(a, b, 6) % 256, Column(a, b, 5) % 256,
     Column(a, b, 4) % 256, Column(a, b, 3) % 256, Column(a, b, 2) % 256,
     Column(a, b, 1) % 256, Column(a, b, 0) % 256 >>

\* the remainder of the first i bytes of a, divided by n
RECURSIVE Remainder(_, _, _)
Remainder(a, n, i) ==
  IF i = 0 THEN 0 ELSE (Remainder(a, n, i - 1) * 256 + a[i]) % n

\* a / b of two uint64, for a divisor b below 2^23
DivU64(a, b) ==
  LET n == NumberOfBytes(b)
  IN [i \in 1..8 |-> (Remainder(a, n, i - 1) * 256 + a[i]) \div n]

\* new(big.Int).Exp(big.NewInt(10), big.NewInt(n), nil).Uint64(): the low
\* 64 bits of 10^n
RECURSIVE Exp10Uint64(_)
Exp10Uint64(n) ==
  IF n = 0 THEN ToUint64(1) ELSE MulU64(Exp10Uint64(n - 1), ToUint64(10))

\* ------------------------------------------------ request identifiers
\* The 32 bytes of a request identifier: bits [248,256), the creation time
\* in bits [208,248), bits [200,208), the token index in bits [192,200),
\* the amount in bits [128,192) and the low 128 bits.
ReqIdOf(top, created, gap, token, amount, low) ==
  <<top>> \o created \o <<gap>> \o <<token>> \o amount \o low

\* the identifiers the logs of the engine carry
ReqIDs ==
  { ReqIdOf(0, BytesOf(7, 5), 0, t, ToUint64(a), Zeros(16)) :
      t \in {2, 3}, a \in {0, 20} }

\* ------------------------------------------------------ pure functions
\* meson_event: one action is the burn and the other the mint
meson_event(actionA, actionB) ==
  \/ actionA = "TokenBurnExecuted" /\ actionB = "TokenMintExecuted"
  \/ actionA = "TokenMintExecuted" /\ actionB = "TokenBurnExecuted"

\* isMyToken: bits [192,200) of the identifier are the chain's token index
isMyToken(reqId, myTokenIndex) ==
  Uint8(And64(Uint64(Rsh(reqId, 192)), 1)) = myTokenIndex

\* the amount as getAmountFromReqID extracts it, before the rescaling
RawAmount(reqId) == And64(Uint64(Rsh(reqId, 128)), 8)

\* getAmountFromReqID with the error raised on the rescaled amount
getAmountFromReqIDStrict(reqId, decimals) ==
  LET amount ==
        IF decimals > CanonicalDecimals
          THEN MulU64(RawAmount(reqId),
                      Exp10Uint64(decimals - CanonicalDecimals))
          ELSE DivU64(RawAmount(reqId),
                      Exp10Uint64(CanonicalDecimals - decimals))
  IN [amount |-> amount, err |-> amount = Zeros(8)]

\* getAmountFromReqID: (amount, err); the product and the multiplier are
\* uint64 and wrap
getAmountFromReqID(reqId, decimals) ==
  IF RawAmount(reqId) = Zeros(8)
    THEN [amount |-> Zeros(8), err |-> TRUE]
    ELSE IF decimals > CanonicalDecimals
      THEN [amount |-> MulU64(RawAmount(reqId),
                              Exp10Uint64(decimals - CanonicalDecimals)),
            err |-> FALSE]
      ELSE [amount |-> DivU64(RawAmount(reqId),
                              Exp10Uint64(CanonicalDecimals - decimals)),
            err |-> FALSE]

\* getCreatedTimeFromReqID shifting by 200 bits
getCreatedTimeFromReqIDLow(reqId) == And64(Uint64(Rsh(reqId, 200)), 5)

\* getCreatedTimeFromReqID: bits [208,248) of the identifier
getCreatedTimeFromReqID(reqId) == And64(Uint64(Rsh(reqId, 208)), 5)

\* int64(createdTime) and float64(amount) of a uint64: below 2^53 that
\* number (the times and amounts of the engine's legs are below 2^31)
Int64(u) == NumberOfBytes(u)
Float64(u) == NumberOfBytes(u)

\* ------------------------------------------------------- the arguments
\* The leg processEvent hands to meson_handle for a log of chain c.
Leg(c, eventName, reqId, txHash, decimals) ==
  [ reqID       |-> reqId,
    chainName   |-> c,
    eventName   |-> eventName,
    createdTime |-> Int64(getCreatedTimeFromReqID(reqId)),
    amount      |-> Float64(getAmountFromReqID(reqId, decimals).amount),
    txHash      |-> txHash ]

\* Tracked without the test of the token index
TrackedAnyToken(reqId, decimals) ==
  ~getAmountFromReqID(reqId, decimals).err

\* processEvent calls meson_handle for this log
Tracked(reqId, decimals) ==
  /\ isMyToken(reqId, MesonIndex)
  /\ ~getAmountFromReqID(reqId, decimals).err

\* processEvent on every log the engine can see, worked out once: the
\* identifiers that lead to a meson_handle call, and the leg of the call
TrackedLogs == [d \in TokenDecimals |-> { r \in ReqIDs : Tracked(r, d) }]

LegOfLog ==
  [c \in Chains, e \in EventNames, r \in ReqIDs, d \in TokenDecimals |->
     Leg(c, e, r, TxHash(c, e), d)]

\* ------------------------------------------------------------ the rows
\* InsertRow with the row stored as checked
InsertRowChecked(leg) ==
  [ ReqID     |-> leg.reqID,
    ChainA    |-> leg.chainName,
    ChainB    |-> "",
    Timestamp |-> leg.createdTime,
    AmountA   |-> leg.amount,
    AmountB   |-> 0,
    ActionA   |-> leg.eventName,
    ActionB   |-> "",
    TxHashA   |-> leg.txHash,
    TxHashB   |-> "",
    IsCheck   |-> TRUE ]

\* meson_handle, no row found: the row handed to InsertMeson
InsertRow(leg) ==
  [ ReqID     |-> leg.reqID,
    ChainA    |-> leg.chainName,
    ChainB    |-> "",
    Timestamp |-> leg.createdTime,
    AmountA   |-> leg.amount,
    AmountB   |-> 0,
    ActionA   |-> leg.eventName,
    ActionB   |-> "",
    TxHashA   |-> leg.txHash,
    TxHashB   |-> "",
    IsCheck   |-> FALSE ]

\* UpdateRow with is_check assumed instead of computed
UpdateRowChecked(m, leg) ==
  [ m EXCEPT !.ChainB  = leg.chainName,
             !.AmountB = leg.amount,
             !.ActionB = leg.eventName,
             !.TxHashB = leg.txHash,
             !.IsCheck = TRUE ]

\* UpdateRow comparing the amounts with >= instead of ==
UpdateRowAtLeast(m, leg) ==
  [ m EXCEPT !.ChainB  = leg.chainName,
             !.AmountB = leg.amount,
             !.ActionB = leg.eventName,
             !.TxHashB = leg.txHash,
             !.IsCheck = (m.AmountA >= leg.amount) ]

\* meson_handle, row found with ChainB empty: existingMeson as assigned
\* before UpdateMeson
UpdateRow(m, leg) ==
  [ m EXCEPT !.ChainB  = leg.chainName,
             !.AmountB = leg.amount,
             !.ActionB = leg.eventName,
             !.TxHashB = leg.txHash,
             !.IsCheck = (m.AmountA = leg.amount) ]

\* the branch condition "existingMeson.ChainB != """
ChainBSet(m) == m.ChainB /= ""

\* one constructMessage call: the call site and the row it reports
Alert(site, m) == [site |-> site, meson |-> m]

\* whether telegramBot.SendMessage and larkBot.SendMessage return nil
SendOutcomes == [telegram : BOOLEAN, lark : BOOLEAN]

\* what a channel has seen of a message
Channel(ok) == IF ok THEN "sent" ELSE "failed"

\* constructMessage returning after a failed Telegram send
constructMessageAbort(site, m, sends) ==
  [ site     |-> site,
    meson    |-> m,
    telegram |-> Channel(sends.telegram),
    lark     |-> IF sends.telegram THEN Channel(sends.lark) ELSE "skipped" ]

\* constructMessage: the Telegram send, its error logged, then the Lark
\* send, its error logged; nothing is returned
constructMessage(site, m, sends) ==
  [ site     |-> Alert(site, m).site,
    meson    |-> Alert(site, m).meson,
    telegram |-> Channel(sends.telegram),
    lark     |-> Channel(sends.lark) ]

\* ConflictOutcome without its constructMessage call
ConflictOutcomeSilent(m, sends) == [ret |-> "chainB", notified |-> <<>>]

\* the "ChainB already has a value" branch: (return value, alerts)
ConflictOutcome(m, sends) ==
  [ret |-> "chainB", notified |-> <<constructMessage("conflict", m, sends)>>]

\* ValidateOutcome testing the amounts before the action pair
ValidateOutcomeAmountFirst(m, sends) ==
  IF ~m.IsCheck
    THEN [ret |-> "amount", notified |-> <<constructMessage("amount", m, sends)>>]
    ELSE IF ~meson_event(m.ActionA, m.ActionB)
      THEN [ret |-> "pair", notified |-> <<constructMessage("pair", m, sends)>>]
      ELSE [ret |-> "nil", notified |-> <<>>]

\* ValidateOutcome without the test of the amounts
ValidateOutcomeNoAmount(m, sends) ==
  IF ~meson_event(m.ActionA, m.ActionB)
    THEN [ret |-> "pair", notified |-> <<constructMessage("pair", m, sends)>>]
    ELSE [ret |-> "nil", notified |-> <<>>]

\* the validation after a successful UpdateMeson: (return value, alerts)
ValidateOutcome(m, sends) ==
  IF ~meson_event(m.ActionA, m.ActionB)
    THEN [ret |-> "pair", notified |-> <<constructMessage("pair", m, sends)>>]
    ELSE IF ~m.IsCheck
      THEN [ret |-> "amount", notified |-> <<constructMessage("amount", m, sends)>>]
      ELSE [ret |-> "nil", notified |-> <<>>]

\* ------------------------------------------------------------ the table
\* UPDATE meson SET chain_b, amount_b, action_b, tx_hash_b, is_check
\* WHERE reqid: the five columns of the row now in the table
UpdateMeson(table, m) ==
  IF m.ReqID \in DOMAIN table
    THEN [table EXCEPT ![m.ReqID] =
            [@ EXCEPT !.ChainB  = m.ChainB,
                      !.AmountB = m.AmountB,
                      !.ActionB = m.ActionB,
                      !.TxHashB = m.TxHashB,
                      !.IsCheck = m.IsCheck]]
    ELSE table

\* INSERT INTO meson: reqid is the primary key
InsertMeson(table, m) == table @@ (m.ReqID :> m)

\* ----------------------------------------------------------- the logs
\* a log of the contract as the loop over the logs looks at it: the length
\* of vLog.Topics and the event whose ID Topics[0] is ("" for another one,
\* or for none)
Log(topics, event) == [topics |-> topics, event |-> event]

\* the body of the loop on one log: vLog.Topics[0] is read for the switch,
\* vLog.Topics[1] and vLog.Topics[2] in the mint and the burn case
handleLog(log) ==
  IF log.topics < 1 THEN "panic"
  ELSE IF log.event \in EventNames
    THEN IF log.topics < 3 THEN "panic" ELSE "processEvent"
    ELSE "ignored"

\* what FilterLogs can return for a range: the query names the contract's
\* address and no topic, so every log of the contract comes back
FetchedLogs ==
  { <<>>,
    <<Log(3, "TokenMintExecuted")>>,
    <<Log(1, ""), Log(3, "TokenBurnExecuted")>>,
    <<Log(0, ""), Log(3, "TokenBurnExecuted")>>,
    <<Log(2, "TokenMintExecuted"), Log(3, "TokenBurnExecuted")>> }

\* ---------------------------------------------------------- the scanner
\* the most blocks one FilterLogs asks for, less one
blockStep == 5000
\* the distance the head must exceed before a range is fetched
HeadMargin == 100

\* chainConfig.StartBlock of each chain
StartBlock(c) == IF c = "Ethereum" THEN 1000 ELSE 6900

\* the heads getLatestBlockNumber reports for each chain
LatestBlocks(c) ==
  IF c = "Ethereum" THEN {1050, 1101, 7000} ELSE {6950, 7100}

\* LastBlockFile with one file for all chains
LastBlockFileShared(chainName) == "last_block/" \o "chain" \o ".txt"

\* filepath.Join("last_block", chainName+".txt")
LastBlockFile(chainName) == "last_block/" \o chainName \o ".txt"

FileNames == { LastBlockFile(c) : c \in Chains }

\* a file that does not exist, and a file holding data
NoFile == [exists |-> FALSE, data |-> <<>>]
FileOf(data) == [exists |-> TRUE, data |-> data]

\* json.Marshal of a uint64: its decimal digits
RECURSIVE Marshal(_)
Marshal(n) ==
  IF n < 10 THEN <<n>> ELSE Append(Marshal(n \div 10), n % 10)

\* the number a string of decimal digits denotes
RECURSIVE NumberOf(_)
NumberOf(data) ==
  IF data = <<>> THEN 0
  ELSE 10 * NumberOf(SubSeq(data, 1, Len(data) - 1)) + data[Len(data)]

\* json.Unmarshal into a uint64: (value, err); no data is an
\* "unexpected end of JSON input"
Unmarshal(data) ==
  IF data = <<>> THEN [value |-> 0, err |-> TRUE]
                 ELSE [value |-> NumberOf(data), err |-> FALSE]

\* getLastBlockNumber resuming one block after the value of the file
getLastBlockNumberNext(f, readFails, startBlockConfig) ==
  IF ~f.exists
    THEN [blockNumber |-> startBlockConfig, err |-> FALSE]
    ELSE IF readFails \/ Unmarshal(f.data).err
      THEN [blockNumber |-> 0, err |-> TRUE]
      ELSE [blockNumber |-> Unmarshal(f.data).value + 1, err |-> FALSE]

\* getLastBlockNumber: (blockNumber, err); the configured start block when
\* the file does not exist
getLastBlockNumber(f, readFails, startBlockConfig) ==
  IF ~f.exists
    THEN [blockNumber |-> startBlockConfig, err |-> FALSE]
    ELSE IF readFails \/ Unmarshal(f.data).err
      THEN [blockNumber |-> 0, err |-> TRUE]
      ELSE [blockNumber |-> Unmarshal(f.data).value, err |-> FALSE]

\* saveLastBlockNumber writing one block further than it was given
saveLastBlockNumberAhead(f, blockNumber, outcome) ==
  IF outcome = "written"
    THEN [file |-> [exists |-> TRUE, data |-> Marshal(blockNumber + 1)],
          err |-> FALSE]
    ELSE IF outcome = "truncated"
      THEN [file |-> [exists |-> TRUE, data |-> <<>>], err |-> TRUE]
      ELSE [file |-> f, err |-> TRUE]

\* how ioutil.WriteFile ends: the data written, the file not opened, or the
\* file opened (and so truncated) and the write failed
WriteOutcomes == {"written", "unopened", "truncated"}

\* saveLastBlockNumber: (the file afterwards, err)
saveLastBlockNumber(f, blockNumber, outcome) ==
  IF outcome = "written"
    THEN [file |-> FileOf(Marshal(blockNumber)), err |-> FALSE]
    ELSE IF outcome = "truncated"
      THEN [file |-> FileOf(<<>>), err |-> TRUE]
      ELSE [file |-> f, err |-> TRUE]

\* EndBlockOf without the cap at the head
EndBlockOfUncapped(start, latest) == start + blockStep

\* connectAndListen's endBlock for a cursor and a head
EndBlockOf(start, latest) ==
  IF start + blockStep > latest THEN latest ELSE start + blockStep

\* HeadTooClose without the test
HeadTooCloseNever(start, latest) == FALSE

\* the loop's test "latestBlock <= startBlock+100": wait, fetch nothing
HeadTooClose(start, latest) == latest <= start + HeadMargin

\* a set of block intervals <<from, to>>, no two touching, with the
\* interval [from, to] added
Cover(intervals, from, to) ==
  LET near == { r \in intervals : r[1] <= to + 1 /\ r[2] >= from - 1 }
      lo == IF \E r \in near : r[1] < from
              THEN CHOOSE x \in { r[1] : r \in near } :
                     \A r \in near : x <= r[1]
              ELSE from
      hi == IF \E r \in near : r[2] > to
              THEN CHOOSE x \in { r[2] : r \in near } :
                     \A r \in near : x >= r[2]
              ELSE to
  IN (intervals \ near) \cup {<<lo, hi>>}

\* ---------------------------------------------------------------- state
VARIABLES
  store,          \* the table meson: reqid -> row
  tokenDecimal,   \* chainConfig.TokenDecimal of each chain
  pc,             \* each chain task: "idle", or "found" inside meson_handle
  existingMeson,  \* each task's FindMesonByReqID result: <<>> or <<row>>
  delivered,      \* each task's meson_handle calls so far, the last is current
  ret,            \* each task's last meson_handle return value
  notified,       \* each task's constructMessage calls of its last call
  skipped,        \* whether processEvent has dropped a log
  faults          \* store operations that failed

VARIABLES
  file,           \* the files of last_block: name -> (exists, data)
  scanPc,         \* each scanner's position in listenEvents/connectAndListen
  startBlock,     \* connectAndListen's startBlock, the cursor
  endBlock,       \* connectAndListen's endBlock while a range is in hand
  scanErr,        \* the error each scanner logged last, "" after a success
  resumed,        \* the value read from the file at the connection: <<N>>
  lastRange,      \* the range the connection dispatched last: <<from, to>>
  covered,        \* the blocks whose logs were all handed to processEvent
  written,        \* the value saveLastBlockNumber wrote last: <<n>>
  latestBlock,    \* connectAndListen's latestBlock of the iteration, else 0
  attempts,       \* the parity of each scanner's connections and head queries
  logs            \* the logs FilterLogs returned, <<>> outside the loop over them

VARIABLES
  tick,           \* the parity of the ticks checkDatabase has handled
  swept,          \* the constructMessage calls of the tick just handled
  sweepErr        \* whether FindUncheckedMesons failed in that tick

VARIABLES
  codecIn,        \* the arguments of the decoders: (reqId, decimals)
  codecOut        \* what the decoders returned for them, <<>> before

engineVars ==
  <<store, tokenDecimal, pc, existingMeson, delivered, ret, notified,
    skipped, faults>>

scanVars ==
  <<file, scanPc, startBlock, endBlock, scanErr, resumed, lastRange,
    covered, written, latestBlock, attempts, logs>>

sweepVars == <<tick, swept, sweepErr>>

codecVars == <<codecIn, codecOut>>

vars == <<engineVars, scanVars, sweepVars, codecVars>>

\* the engine as main leaves it: an empty table, no call made
EngineInit ==
  /\ store = <<>>
  /\ tokenDecimal \in [Chains -> TokenDecimals]
  /\ pc = [c \in Chains |-> "idle"]
  /\ existingMeson = [c \in Chains |-> <<>>]
  /\ delivered = [c \in Chains |-> <<>>]
  /\ ret = [c \in Chains |-> "none"]
  /\ notified = [c \in Chains |-> <<>>]
  /\ skipped = FALSE
  /\ faults = 0

\* the scanners before listenEvents' first connectAndListen, on a first
\* start: last_block holds no file
ScanInit ==
  /\ file = [f \in FileNames |-> NoFile]
  /\ scanPc = [c \in Chains |-> "down"]
  /\ startBlock = [c \in Chains |-> 0]
  /\ endBlock = [c \in Chains |-> 0]
  /\ scanErr = [c \in Chains |-> ""]
  /\ resumed = [c \in Chains |-> <<>>]
  /\ lastRange = [c \in Chains |-> <<>>]
  /\ covered = [c \in Chains |-> {}]
  /\ written = [c \in Chains |-> <<>>]
  /\ latestBlock = [c \in Chains |-> 0]
  /\ attempts = [c \in Chains |-> 0]
  /\ logs = [c \in Chains |-> <<>>]

\* checkDatabase before its first tick
SweepInit ==
  /\ tick = 0
  /\ swept = <<>>
  /\ sweepErr = FALSE

\* no decoder called
CodecIdle ==
  /\ codecIn = <<>>
  /\ codecOut = <<>>

Init == EngineInit /\ ScanInit /\ SweepInit /\ CodecIdle

\* the meson_handle calls made so far
RECURSIVE CallsOf(_)
CallsOf(S) ==
  IF S = {} THEN 0
  ELSE LET c == CHOOSE x \in S : TRUE
       IN Len(delivered[c]) + CallsOf(S \ {c})

Calls == CallsOf(Chains)

\* a step of another task than checkDatabase: no tick is handled in it
NoSweep ==
  /\ swept' = <<>>
  /\ sweepErr' = FALSE
  /\ UNCHANGED tick

\* the leg of the task's current (or last) meson_handle call
CurrentLeg(c) == delivered[c][Len(delivered[c])]

\* whether a store operation may fail now
MayFail == {FALSE} \cup (IF faults < MaxFaults THEN {TRUE} ELSE {})

\* -------------------------------------------------------------- actions
\* processEvent on a log whose token index is not the chain's, or whose
\* amount does not decode: meson_handle is not called.
ProcessEventDropped(c) ==
  /\ pc[c] = "idle"
  /\ \E reqId \in ReqIDs :
       reqId \notin TrackedLogs[tokenDecimal[c]]
  /\ skipped' = TRUE
  /\ UNCHANGED <<store, tokenDecimal, pc, existingMeson, delivered, ret,
                 notified, faults>>
  /\ NoSweep
  /\ UNCHANGED <<scanVars, codecVars>>

\* processEvent on a tracked log, up to and including meson_handle's
\* FindMesonByReqID.
MesonHandleFind(c) ==
  /\ pc[c] = "idle"
  /\ Calls < MaxCalls
  /\ \E eventName \in EventNames, reqId \in ReqIDs, fails \in MayFail :
       /\ reqId \in TrackedLogs[tokenDecimal[c]]
       /\ delivered' = [delivered EXCEPT ![c] =
            Append(@, LegOfLog[c, eventName, reqId, tokenDecimal[c]])]
       /\ notified' = [notified EXCEPT ![c] = <<>>]
       /\ IF fails
            THEN /\ faults' = faults + 1
                 /\ ret' = [ret EXCEPT ![c] = "query"]
                 /\ UNCHANGED <<pc, existingMeson>>
            ELSE /\ pc' = [pc EXCEPT ![c] = "found"]
                 /\ ret' = [ret EXCEPT ![c] = "running"]
                 /\ existingMeson' = [existingMeson EXCEPT ![c] =
                      IF reqId \in DOMAIN store THEN <<store[reqId]>>
                                                ELSE <<>>]
                 /\ UNCHANGED faults
  /\ UNCHANGED <<store, tokenDecimal, skipped>>
  /\ NoSweep
  /\ UNCHANGED <<scanVars, codecVars>>

\* meson_handle, a row was found and its ChainB is set
MesonHandleConflict(c) ==
  /\ pc[c] = "found"
  /\ existingMeson[c] /= <<>>
  /\ ChainBSet(existingMeson[c][1])
  /\ \E sends \in SendOutcomes :
       LET out == ConflictOutcome(existingMeson[c][1], sends) IN
       /\ ret' = [ret EXCEPT ![c] = out.ret]
       /\ notified' = [notified EXCEPT ![c] = out.notified]
  /\ pc' = [pc EXCEPT ![c] = "idle"]
  /\ existingMeson' = [existingMeson EXCEPT ![c] = <<>>]
  /\ UNCHANGED <<store, tokenDecimal, delivered, skipped, faults>>
  /\ NoSweep
  /\ UNCHANGED <<scanVars, codecVars>>

\* meson_handle, a row was found and its ChainB is empty
MesonHandleUpdate(c) ==
  /\ pc[c] = "found"
  /\ existingMeson[c] /= <<>>
  /\ ~ChainBSet(existingMeson[c][1])
  /\ \E fails \in MayFail, sends \in SendOutcomes :
       LET m == UpdateRow(existingMeson[c][1], CurrentLeg(c))
           out == ValidateOutcome(m, sends)
       IN IF fails
            THEN /\ faults' = faults + 1
                 /\ ret' = [ret EXCEPT ![c] = "update"]
                 /\ UNCHANGED <<store, notified>>
            ELSE /\ store' = UpdateMeson(store, m)
                 /\ ret' = [ret EXCEPT ![c] = out.ret]
                 /\ notified' = [notified EXCEPT ![c] = out.notified]
                 /\ UNCHANGED faults
  /\ pc' = [pc EXCEPT ![c] = "idle"]
  /\ existingMeson' = [existingMeson EXCEPT ![c] = <<>>]
  /\ UNCHANGED <<tokenDecimal, delivered, skipped>>
  /\ NoSweep
  /\ UNCHANGED <<scanVars, codecVars>>

\* meson_handle, no row was found
MesonHandleInsert(c) ==
  /\ pc[c] = "found"
  /\ existingMeson[c] = <<>>
  /\ \E fails \in MayFail :
       LET m == InsertRow(CurrentLeg(c)) IN
       IF fails
         THEN /\ faults' = faults + 1
              /\ ret' = [ret EXCEPT ![c] = "insert"]
              /\ UNCHANGED store
         ELSE IF m.ReqID \in DOMAIN store
           \* duplicate key value violates the primary key
           THEN /\ ret' = [ret EXCEPT ![c] = "insert"]
                /\ UNCHANGED <<store, faults>>
           ELSE /\ store' = InsertMeson(store, m)
                /\ ret' = [ret EXCEPT ![c] = "nil"]
                /\ UNCHANGED faults
  /\ pc' = [pc EXCEPT ![c] = "idle"]
  /\ existingMeson' = [existingMeson EXCEPT ![c] = <<>>]
  /\ UNCHANGED <<tokenDecimal, delivered, notified, skipped>>
  /\ NoSweep
  /\ UNCHANGED <<scanVars, codecVars>>

Next ==
  \E c \in Chains :
    \/ ProcessEventDropped(c)
    \/ MesonHandleFind(c)
    \/ MesonHandleConflict(c)
    \/ MesonHandleUpdate(c)
    \/ MesonHandleInsert(c)

Spec == Init /\ [][Next]_vars

\* ---------------------------------------------------- the timeout sweep
\* FindUncheckedMesons without its WHERE clause
FindUncheckedMesonsAll(table) == DOMAIN table

\* FindUncheckedMesons selecting only the rows that have a leg B
FindUncheckedMesonsPaired(table) ==
  { r \in DOMAIN table : ~table[r].IsCheck /\ table[r].ChainB /= "" }

\* FindUncheckedMesons: the reqids of the rows WHERE is_check = false
FindUncheckedMesons(table) == { r \in DOMAIN table : ~table[r].IsCheck }

\* the rows of a result set, in the order the query returned them
RECURSIVE Rows(_, _)
Rows(table, ids) ==
  IF ids = {} THEN <<>>
  ELSE LET r == CHOOSE x \in ids : TRUE
       IN <<table[r]>> \o Rows(table, ids \ {r})

\* one tick of checkDatabase: the query, then one constructMessage per row
\* of the result; a failed query is logged and the tick ends.  The
\* channels answer the sends of one tick alike.
CheckDatabase ==
  /\ \E fails \in MayFail, sends \in SendOutcomes :
       IF fails
         THEN /\ faults' = faults + 1
              /\ sweepErr' = TRUE
              /\ swept' = <<>>
         ELSE LET results == Rows(store, FindUncheckedMesons(store)) IN
              /\ swept' = [i \in 1..Len(results) |->
                             constructMessage("timeout", results[i], sends)]
              /\ sweepErr' = FALSE
              /\ UNCHANGED faults
  /\ tick' = 1 - tick
  /\ UNCHANGED <<store, tokenDecimal, pc, existingMeson, delivered, ret,
                 notified, skipped>>
  /\ UNCHANGED <<scanVars, codecVars>>

\* --------------------------------------------------- the scanner's steps
\* listenEvents calls connectAndListen: Dial, then getLastBlockNumber; an
\* error of either is returned, logged, and the call is made again
Connect(c) ==
  /\ scanPc[c] = "down"
  /\ \E dialFails \in BOOLEAN, readFails \in BOOLEAN :
       LET f == file[LastBlockFile(c)]
           got == getLastBlockNumber(f, readFails, StartBlock(c))
       IN IF dialFails \/ got.err
            THEN /\ scanErr' = [scanErr EXCEPT ![c] =
                      IF dialFails THEN "connect" ELSE "read"]
                 /\ UNCHANGED <<scanPc, startBlock, resumed>>
            ELSE /\ scanPc' = [scanPc EXCEPT ![c] = "loop"]
                 /\ startBlock' = [startBlock EXCEPT ![c] = got.blockNumber]
                 /\ scanErr' = [scanErr EXCEPT ![c] = ""]
                 /\ resumed' = [resumed EXCEPT ![c] =
                      IF f.exists THEN <<Unmarshal(f.data).value>> ELSE <<>>]
  /\ attempts' = [attempts EXCEPT ![c] = 1 - @]
  /\ UNCHANGED <<file, endBlock, lastRange, covered, written, latestBlock,
                 logs>>
  /\ UNCHANGED <<engineVars, sweepVars, codecVars>>

\* the head of the loop: getLatestBlockNumber, the wait while the head is
\* within the margin, the range of this iteration
HeadQuery(c) ==
  /\ scanPc[c] = "loop"
  /\ \E fails \in BOOLEAN, latest \in LatestBlocks(c) :
       IF fails
         THEN /\ scanErr' = [scanErr EXCEPT ![c] = "head"]
              /\ latestBlock' = [latestBlock EXCEPT ![c] = 0]
              /\ UNCHANGED <<scanPc, endBlock>>
         ELSE /\ scanErr' = [scanErr EXCEPT ![c] = ""]
              /\ latestBlock' = [latestBlock EXCEPT ![c] = latest]
              /\ IF HeadTooClose(startBlock[c], latest)
                   THEN UNCHANGED <<scanPc, endBlock>>
                   ELSE /\ scanPc' = [scanPc EXCEPT ![c] = "fetch"]
                        /\ endBlock' = [endBlock EXCEPT ![c] =
                             EndBlockOf(startBlock[c], latest)]
  /\ attempts' = [attempts EXCEPT ![c] = 1 - @]
  /\ UNCHANGED <<file, startBlock, resumed, lastRange, covered, written,
                 logs>>
  /\ UNCHANGED <<engineVars, sweepVars, codecVars>>

\* FilterLogs with the cursor moved past the range after an error
FilterLogsAdvancing(c) ==
  /\ scanPc[c] = "fetch"
  /\ \E fails \in BOOLEAN, fetched \in FetchedLogs :
       IF fails
         THEN /\ scanPc' = [scanPc EXCEPT ![c] = "loop"]
              /\ scanErr' = [scanErr EXCEPT ![c] = "fetch"]
              /\ startBlock' = [startBlock EXCEPT ![c] = endBlock[c] + 1]
              /\ endBlock' = [endBlock EXCEPT ![c] = 0]
              /\ latestBlock' = [latestBlock EXCEPT ![c] = 0]
              /\ UNCHANGED logs
         ELSE /\ scanPc' = [scanPc EXCEPT ![c] = "logs"]
              /\ scanErr' = [scanErr EXCEPT ![c] = ""]
              /\ logs' = [logs EXCEPT ![c] = fetched]
              /\ UNCHANGED <<startBlock, endBlock, latestBlock>>
  /\ UNCHANGED <<file, resumed, lastRange, covered, written, attempts>>
  /\ UNCHANGED <<engineVars, sweepVars, codecVars>>

\* client.FilterLogs for [startBlock, endBlock]; an error is logged and the
\* loop starts again with the cursor as it is
FilterLogs(c) ==
  /\ scanPc[c] = "fetch"
  /\ \E fails \in BOOLEAN, fetched \in FetchedLogs :
       IF fails
         THEN /\ scanPc' = [scanPc EXCEPT ![c] = "loop"]
              /\ scanErr' = [scanErr EXCEPT ![c] = "fetch"]
              /\ endBlock' = [endBlock EXCEPT ![c] = 0]
              /\ latestBlock' = [latestBlock EXCEPT ![c] = 0]
              /\ UNCHANGED logs
         ELSE /\ scanPc' = [scanPc EXCEPT ![c] = "logs"]
              /\ scanErr' = [scanErr EXCEPT ![c] = ""]
              /\ logs' = [logs EXCEPT ![c] = fetched]
              /\ UNCHANGED <<endBlock, latestBlock>>
  /\ UNCHANGED <<file, startBlock, resumed, lastRange, covered, written,
                 attempts>>
  /\ UNCHANGED <<engineVars, sweepVars, codecVars>>

\* the loop over the fetched logs: each mint or burn log goes to
\* processEvent (the calls themselves are the engine's actions above)
Dispatch(c) ==
  /\ scanPc[c] = "logs"
  /\ \A i \in 1..Len(logs[c]) : handleLog(logs[c][i]) /= "panic"
  /\ scanPc' = [scanPc EXCEPT ![c] = "save"]
  /\ lastRange' = [lastRange EXCEPT ![c] = <<startBlock[c], endBlock[c]>>]
  /\ covered' = [covered EXCEPT ![c] = Cover(@, startBlock[c], endBlock[c])]
  /\ logs' = [logs EXCEPT ![c] = <<>>]
  /\ UNCHANGED <<file, startBlock, endBlock, scanErr, resumed, written,
                 latestBlock, attempts>>
  /\ UNCHANGED <<engineVars, sweepVars, codecVars>>

\* the loop over the fetched logs reaches a log whose Topics slice is too
\* short: the index expression panics in the scanner's goroutine, nothing
\* in the program recovers, the runtime ends the process and
\* start_and_monitor.sh starts it again
DispatchPanic(c) ==
  /\ scanPc[c] = "logs"
  /\ \E i \in 1..Len(logs[c]) : handleLog(logs[c][i]) = "panic"
  /\ scanPc' = [d \in Chains |-> "down"]
  /\ startBlock' = [d \in Chains |-> 0]
  /\ endBlock' = [d \in Chains |-> 0]
  /\ scanErr' = [d \in Chains |-> IF d = c THEN "panic" ELSE ""]
  /\ resumed' = [d \in Chains |-> <<>>]
  /\ lastRange' = [d \in Chains |-> <<>>]
  /\ latestBlock' = [d \in Chains |-> 0]
  /\ logs' = [d \in Chains |-> <<>>]
  /\ UNCHANGED <<file, covered, written, attempts>>
  /\ UNCHANGED <<engineVars, sweepVars, codecVars>>

\* Save with the cursor left at the range after a failed write
SaveKeepingCursor(c) ==
  /\ scanPc[c] = "save"
  /\ \E outcome \in WriteOutcomes :
       LET saved == saveLastBlockNumber(file[LastBlockFile(c)],
                                        endBlock[c] + 1, outcome)
       IN /\ file' = [file EXCEPT ![LastBlockFile(c)] = saved.file]
          /\ scanErr' = [scanErr EXCEPT ![c] = IF saved.err THEN "save" ELSE ""]
          /\ written' = [written EXCEPT ![c] =
               IF saved.err THEN @ ELSE <<endBlock[c] + 1>>]
          /\ startBlock' = [startBlock EXCEPT ![c] =
               IF saved.err THEN @ ELSE endBlock[c] + 1]
  /\ endBlock' = [endBlock EXCEPT ![c] = 0]
  /\ latestBlock' = [latestBlock EXCEPT ![c] = 0]
  /\ scanPc' = [scanPc EXCEPT ![c] = "loop"]
  /\ UNCHANGED <<resumed, lastRange, covered, attempts, logs>>
  /\ UNCHANGED <<engineVars, sweepVars, codecVars>>

\* "startBlock = endBlock + 1", then saveLastBlockNumber, whose error is
\* logged; the loop goes on with the new cursor either way
Save(c) ==
  /\ scanPc[c] = "save"
  /\ \E outcome \in WriteOutcomes :
       LET saved == saveLastBlockNumber(file[LastBlockFile(c)],
                                        endBlock[c] + 1, outcome)
       IN /\ file' = [file EXCEPT ![LastBlockFile(c)] = saved.file]
          /\ scanErr' = [scanErr EXCEPT ![c] = IF saved.err THEN "save" ELSE ""]
          /\ written' = [written EXCEPT ![c] =
               IF saved.err THEN @ ELSE <<endBlock[c] + 1>>]
  /\ startBlock' = [startBlock EXCEPT ![c] = endBlock[c] + 1]
  /\ endBlock' = [endBlock EXCEPT ![c] = 0]
  /\ latestBlock' = [latestBlock EXCEPT ![c] = 0]
  /\ scanPc' = [scanPc EXCEPT ![c] = "loop"]
  /\ UNCHANGED <<resumed, lastRange, covered, attempts, logs>>
  /\ UNCHANGED <<engineVars, sweepVars, codecVars>>

\* the process ends (a panic, a kill) and start_and_monitor.sh starts it
\* again: every scanner is back before its first connectAndListen, and
\* only the files keep what they had
Restart ==
  /\ \E c \in Chains : scanPc[c] /= "down"
  /\ scanPc' = [c \in Chains |-> "down"]
  /\ startBlock' = [c \in Chains |-> 0]
  /\ endBlock' = [c \in Chains |-> 0]
  /\ scanErr' = [c \in Chains |-> ""]
  /\ resumed' = [c \in Chains |-> <<>>]
  /\ lastRange' = [c \in Chains |-> <<>>]
  /\ latestBlock' = [c \in Chains |-> 0]
  /\ logs' = [c \in Chains |-> <<>>]
  /\ UNCHANGED <<file, covered, written, attempts>>
  /\ UNCHANGED <<engineVars, sweepVars, codecVars>>

\* the steps of chain c's scanner
ScanStep(c) ==
  \/ Connect(c)
  \/ HeadQuery(c)
  \/ FilterLogs(c)
  \/ Dispatch(c)
  \/ Save(c)

ScanNext ==
  \/ \E c \in Chains : ScanStep(c)
  \/ \E c \in Chains : DispatchPanic(c)
  \/ Restart

\* the scanners of a first start; the engine makes no call
ScanSpecInit ==
  /\ Init
  /\ tokenDecimal = [c \in Chains |-> CanonicalDecimals]

SpecScan == ScanSpecInit /\ [][ScanNext]_vars

\* listenEvents and connectAndListen are loops without an exit, each in a
\* goroutine of its own: a scanner that can take a step takes one, and
\* one whose loop over the logs meets a log that panics does panic
FairSpecScan ==
  SpecScan /\ \A c \in Chains : WF_vars(ScanStep(c) \/ DispatchPanic(c))

\* ------------------------------------------- the engine with the sweep
\* two requests of an earlier run of the program
PendingID ==
  ReqIdOf(0, BytesOf(5, 5), 0, MesonIndex, ToUint64(30), Zeros(16))
MatchedID ==
  ReqIdOf(0, BytesOf(6, 5), 0, MesonIndex, ToUint64(40), Zeros(16))

\* the table a start of the program finds: a row whose second leg has not
\* arrived and a row with both legs and equal amounts
StoredBefore ==
  LET burn(id) == Leg("Ethereum", "TokenBurnExecuted", id,
                      TxHash("Ethereum", "TokenBurnExecuted"),
                      CanonicalDecimals)
      mint(id) == Leg("BSC", "TokenMintExecuted", id,
                      TxHash("BSC", "TokenMintExecuted"), CanonicalDecimals)
  IN InsertMeson(InsertMeson(<<>>, InsertRow(burn(PendingID))),
                 UpdateRow(InsertRow(burn(MatchedID)), mint(MatchedID)))

\* a start of the program on that table, the chains' tokens having 6 and
\* 7 decimals
SweepSpecInit ==
  /\ store = StoredBefore
  /\ tokenDecimal = [c \in Chains |-> IF c = "Ethereum" THEN 6 ELSE 7]
  /\ pc = [c \in Chains |-> "idle"]
  /\ existingMeson = [c \in Chains |-> <<>>]
  /\ delivered = [c \in Chains |-> <<>>]
  /\ ret = [c \in Chains |-> "none"]
  /\ notified = [c \in Chains |-> <<>>]
  /\ skipped = FALSE
  /\ faults = 0
  /\ ScanInit
  /\ SweepInit
  /\ CodecIdle

SweepNext ==
  \/ Next
  \/ CheckDatabase

SpecSweep == SweepSpecInit /\ [][SweepNext]_vars

\* the ticker of checkDatabase keeps firing and each tick is handled
FairSpecSweep == SpecSweep /\ WF_vars(CheckDatabase)

\* ---------------------------------------------------------- the decoders
\* the parts identifiers are put together from
Tops == {0, 255}
Createds == {BytesOf(7, 5), <<1, 2, 3, 4, 5>>, <<255, 255, 255, 255, 255>>}
Gaps == {0, 255}
Tokens == {2, 3, 255}
\* 0, 5, 10^6, 10^18 and 2^64-1
Amounts ==
  { Zeros(8), ToUint64(5), ToUint64(1000000),
    <<13, 224, 182, 179, 167, 100, 0, 0>>,
    <<255, 255, 255, 255, 255, 255, 255, 255>> }
Lows == {Zeros(16), [i \in 1..16 |-> 255]}
\* chainConfig.TokenDecimal of the chain whose log is decoded
CodecDecimals == {0, 6, 18}

\* the arguments of the three decoders: the identifier by its parts, the
\* chain's token index and its decimals
CodecInputs ==
  [ top : Tops, created : Createds, gap : Gaps, token : Tokens,
    amount : Amounts, low : Lows, myTokenIndex : {MesonIndex},
    decimals : CodecDecimals ]

\* the identifier of the arguments
ReqIdIn(in) ==
  ReqIdOf(in.top, in.created, in.gap, in.token, in.amount, in.low)

\* processEvent is handed a log: no decoder has returned yet
CodecInit ==
  /\ codecIn \in CodecInputs
  /\ codecOut = [isMyToken |-> <<>>, amount |-> <<>>, createdTime |-> <<>>]
  /\ EngineInit
  /\ tokenDecimal = [c \in Chains |-> CanonicalDecimals]
  /\ ScanInit
  /\ SweepInit

CallIsMyToken ==
  /\ codecOut.isMyToken = <<>>
  /\ codecOut' = [codecOut EXCEPT !.isMyToken =
       <<isMyToken(ReqIdIn(codecIn), codecIn.myTokenIndex)>>]
  /\ UNCHANGED <<codecIn, engineVars, scanVars, sweepVars>>

CallGetAmountFromReqID ==
  /\ codecOut.amount = <<>>
  /\ codecOut' = [codecOut EXCEPT !.amount =
       <<getAmountFromReqID(ReqIdIn(codecIn), codecIn.decimals)>>]
  /\ UNCHANGED <<codecIn, engineVars, scanVars, sweepVars>>

CallGetCreatedTimeFromReqID ==
  /\ codecOut.createdTime = <<>>
  /\ codecOut' = [codecOut EXCEPT !.createdTime =
       <<getCreatedTimeFromReqID(ReqIdIn(codecIn))>>]
  /\ UNCHANGED <<codecIn, engineVars, scanVars, sweepVars>>

CodecNext ==
  \/ CallIsMyToken
  \/ CallGetAmountFromReqID
  \/ CallGetCreatedTimeFromReqID

SpecCodec == CodecInit /\ [][CodecNext]_vars

\* ------------------------------------------------------ claim vocabulary
AllIdle == \A c \in Chains : pc[c] = "idle"

\* the row left by meson_handle(X) then meson_handle(Y), one after the
\* other, on a table without a row for their request
Serial(X, Y) == UpdateRow(InsertRow(X), Y)

\* the leg-B columns and is_check of a row
LegBOf(m) == <<m.ChainB, m.AmountB, m.ActionB, m.TxHashB, m.IsCheck>>

\* the leg is the row's leg B: same chain, action, amount and tx hash
SameAsLegB(m, leg) ==
  /\ m.ChainB = leg.chainName
  /\ m.ActionB = leg.eventName
  /\ m.AmountB = leg.amount
  /\ m.TxHashB = leg.txHash

\* the row with its two legs exchanged
SwapLegs(m) ==
  [ m EXCEPT !.ChainA = m.ChainB,   !.ChainB = m.ChainA,
             !.AmountA = m.AmountB, !.AmountB = m.AmountA,
             !.ActionA = m.ActionB, !.ActionB = m.ActionA,
             !.TxHashA = m.TxHashB, !.TxHashB = m.TxHashA ]

\* task c's step ends a meson_handle call that found a row with ChainB set
ConflictStep(c) ==
  /\ pc[c] = "found"
  /\ pc'[c] = "idle"
  /\ existingMeson[c] /= <<>>
  /\ existingMeson[c][1].ChainB /= ""

\* task c's step ends a meson_handle call whose UpdateMeson succeeded
UpdatedStep(c) ==
  /\ pc[c] = "found"
  /\ pc'[c] = "idle"
  /\ existingMeson[c] /= <<>>
  /\ existingMeson[c][1].ChainB = ""
  /\ ret'[c] /= "update"

\* the table holds the leg as leg B of its request's row
StoredAsLegB(table, leg) ==
  /\ leg.reqID \in DOMAIN table
  /\ SameAsLegB(table[leg.reqID], leg)

\* X then Y were the only two calls, one after the other, with a working
\* store: both on chain c, or X on c and Y on another chain
DeliveredInOrder(c, X, Y) ==
  /\ AllIdle
  /\ faults = 0
  /\ X.reqID = Y.reqID
  /\ \/ /\ delivered[c] = <<X, Y>>
        /\ \A d \in Chains \ {c} : delivered[d] = <<>>
     \/ /\ delivered[c] = <<X>>
        /\ \E d \in Chains \ {c} :
             /\ delivered[d] = <<Y>>
             /\ \A e \in Chains \ {c, d} : delivered[e] = <<>>
  /\ X.reqID \in DOMAIN store
  /\ store[X.reqID] = Serial(X, Y)

\* the legs the tasks have delivered
DeliveredLegs ==
  UNION { { delivered[c][i] : i \in 1..Len(delivered[c]) } : c \in Chains }

\* --------------------------------------------------------------- claims

\* C1 (as claimed): when a leg L is delivered for a request without a row
\* and then delivered again, the row is what the first call left (leg B
\* empty, is_check false) and the second call raises no alert.
C1_RedeliveryIsNoop ==
  \A c \in Chains :
    ( /\ AllIdle
      /\ faults = 0
      /\ Len(delivered[c]) = 2
      /\ delivered[c][1] = delivered[c][2]
      /\ \A d \in Chains \ {c} : delivered[d] = <<>> )
    => LET L == delivered[c][1] IN
         /\ L.reqID \in DOMAIN store
         /\ store[L.reqID] = InsertRow(L)
         /\ notified[c] = <<>>

\* C2 (as claimed): when two chain tasks each made one meson_handle call
\* for the same request, with a working store, the row is the one some
\* serial order of the two calls leaves, whatever the interleaving.
C2_SerialOutcome ==
  \A c \in Chains : \A d \in Chains \ {c} :
    ( /\ AllIdle
      /\ faults = 0
      /\ Len(delivered[c]) = 1
      /\ Len(delivered[d]) = 1
      /\ \A e \in Chains \ {c, d} : delivered[e] = <<>>
      /\ delivered[c][1].reqID = delivered[d][1].reqID )
    => LET X == delivered[c][1]
           Y == delivered[d][1]
       IN /\ X.reqID \in DOMAIN store
          /\ store[X.reqID] \in {Serial(X, Y), Serial(Y, X)}

\* C3 (as claimed): once a row's ChainB is set, its leg-B columns and
\* is_check never change again.
C3_LegBWriteOnce ==
  [][ \A r \in DOMAIN store :
        store[r].ChainB /= "" => LegBOf(store'[r]) = LegBOf(store[r]) ]_vars

\* C4: a meson_handle call that finds its request's row with leg B set, for
\* a leg that is not that leg B, raises one alert (the row as found),
\* returns the "ChainB already has a value" error and leaves the table
\* as it is.
C4_ConflictDetected ==
  [][ \A c \in Chains :
        ( /\ ConflictStep(c)
          /\ ~SameAsLegB(existingMeson[c][1], CurrentLeg(c)) )
        => /\ Len(notified'[c]) = 1
           /\ notified'[c][1].site = "conflict"
           /\ notified'[c][1].meson = existingMeson[c][1]
           /\ ret'[c] = "chainB"
           /\ store' = store ]_vars

\* C4's case: a call for a leg other than the stored leg B has ended with
\* the error and an alert.
C4_Witness ==
  \E c \in Chains :
    /\ pc[c] = "idle"
    /\ ret[c] = "chainB"
    /\ Len(notified[c]) = 1
    /\ CurrentLeg(c).reqID \in DOMAIN store
    /\ store[CurrentLeg(c).reqID].ChainB /= ""
    /\ ~SameAsLegB(store[CurrentLeg(c).reqID], CurrentLeg(c))

\* C5 (as claimed): a meson_handle call that finds its request's row with
\* leg B set, for a leg identical to that leg B, raises no alert, returns
\* no error and leaves the table as it is.
C5_DuplicateLegBIsNoop ==
  [][ \A c \in Chains :
        ( /\ ConflictStep(c)
          /\ SameAsLegB(existingMeson[c][1], CurrentLeg(c)) )
        => /\ notified'[c] = <<>>
           /\ ret'[c] = "nil"
           /\ store' = store ]_vars

\* C6 (as claimed): the row left by X then Y is, in all columns, the row
\* left by Y then X.
C6_SameRowEitherOrder ==
  \A c \in Chains : \A X \in DeliveredLegs : \A Y \in DeliveredLegs :
    DeliveredInOrder(c, X, Y) => store[X.reqID] = Serial(Y, X)

\* C6 (amended): the row left by X then Y is the row left by Y then X with
\* the two legs exchanged: the same reqid, timestamp and is_check, and the
\* same two legs in the other two slots.
C6_SameRowUpToSlots ==
  \A c \in Chains : \A X \in DeliveredLegs : \A Y \in DeliveredLegs :
    DeliveredInOrder(c, X, Y) => SwapLegs(store[X.reqID]) = Serial(Y, X)

\* C6's case: two different legs were handled one after the other.
C6_Witness ==
  \E c \in Chains : \E X \in DeliveredLegs : \E Y \in DeliveredLegs :
    /\ DeliveredInOrder(c, X, Y)
    /\ X /= Y
    /\ X.amount /= Y.amount

\* C7: in every row, is_check is true exactly when ChainB is set and
\* amount_a equals amount_b.
C7_IsCheckIff ==
  \A r \in DOMAIN store :
    store[r].IsCheck <=>
      (store[r].ChainB /= "" /\ store[r].AmountA = store[r].AmountB)

\* C7's case: a row has both legs and is_check true.
C7_Witness ==
  \E r \in DOMAIN store : store[r].ChainB /= "" /\ store[r].IsCheck

\* C8 (as claimed): every row with is_check true has one burn and one mint.
C8_CheckedHasValidPair ==
  \A r \in DOMAIN store :
    store[r].IsCheck => meson_event(store[r].ActionA, store[r].ActionB)

\* C9: a meson_handle call whose leg has the action of the row's leg A, and
\* whose update succeeds, raises the action-pair alert and returns that
\* error, whatever the amounts, and the table holds the leg as leg B.
C9_PairAlert ==
  [][ \A c \in Chains :
        ( /\ UpdatedStep(c)
          /\ existingMeson[c][1].ActionA = CurrentLeg(c).eventName )
        => /\ ret'[c] = "pair"
           /\ Len(notified'[c]) = 1
           /\ notified'[c][1].site = "pair"
           /\ StoredAsLegB(store', CurrentLeg(c)) ]_vars

\* C9's case: the action-pair error was returned for a row whose amounts
\* are equal.
C9_Witness ==
  \E c \in Chains :
    /\ pc[c] = "idle"
    /\ ret[c] = "pair"
    /\ Len(notified[c]) = 1
    /\ StoredAsLegB(store, CurrentLeg(c))
    /\ store[CurrentLeg(c).reqID].AmountA = store[CurrentLeg(c).reqID].AmountB

\* C10: a meson_handle call whose leg pairs with the row's leg A (one burn,
\* one mint) with another amount, and whose update succeeds, stores the leg
\* as leg B with is_check false and raises the amount alert and no other.
C10_AmountAlert ==
  [][ \A c \in Chains :
        ( /\ UpdatedStep(c)
          /\ meson_event(existingMeson[c][1].ActionA, CurrentLeg(c).eventName)
          /\ existingMeson[c][1].AmountA /= CurrentLeg(c).amount )
        => /\ ret'[c] = "amount"
           /\ Len(notified'[c]) = 1
           /\ notified'[c][1].site = "amount"
           /\ StoredAsLegB(store', CurrentLeg(c))
           /\ ~store'[CurrentLeg(c).reqID].IsCheck ]_vars

\* C10's case: the amount error was returned for a burn/mint pair.
C10_Witness ==
  \E c \in Chains :
    /\ pc[c] = "idle"
    /\ ret[c] = "amount"
    /\ Len(notified[c]) = 1
    /\ StoredAsLegB(store, CurrentLeg(c))
    /\ meson_event(store[CurrentLeg(c).reqID].ActionA,
                   store[CurrentLeg(c).reqID].ActionB)
    /\ ~store[CurrentLeg(c).reqID].IsCheck

\* C11 (as claimed): when one chain task has delivered the burn leg and
\* another the mint leg of one request, with equal amounts and a working
\* store, the table holds one row, it has is_check true, and neither call
\* raised an alert.
C11_SuccessPath ==
  \A c \in Chains : \A d \in Chains \ {c} :
    ( /\ AllIdle
      /\ faults = 0
      /\ Len(delivered[c]) = 1
      /\ Len(delivered[d]) = 1
      /\ \A e \in Chains \ {c, d} : delivered[e] = <<>>
      /\ delivered[c][1].reqID = delivered[d][1].reqID
      /\ delivered[c][1].eventName = "TokenBurnExecuted"
      /\ delivered[d][1].eventName = "TokenMintExecuted"
      /\ delivered[c][1].amount = delivered[d][1].amount )
    => /\ DOMAIN store = {delivered[c][1].reqID}
       /\ store[delivered[c][1].reqID].IsCheck
       /\ notified[c] = <<>>
       /\ notified[d] = <<>>

\* ----------------------------------------------------- scanner vocabulary
\* the file of chain c holds a number
Readable(c) ==
  /\ file[LastBlockFile(c)].exists
  /\ ~Unmarshal(file[LastBlockFile(c)].data).err

\* the number the file of chain c holds
Persisted(c) == Unmarshal(file[LastBlockFile(c)].data).value

\* scanner c has the range [startBlock, endBlock] in hand: computed, asked
\* for with FilterLogs, or fetched and not yet dispatched
RangeInHand(c) == scanPc[c] \in {"fetch", "logs"}

\* every block of lo..hi lies in an interval of the set (the intervals of
\* covered never touch, so the blocks lie in one of them)
Covers(intervals, lo, hi) ==
  lo > hi \/ \E r \in intervals : r[1] <= lo /\ hi <= r[2]

\* what step leaves of chain d's scanner and of the sweep
ScannerOf(d) ==
  <<file[LastBlockFile(d)], scanPc[d], startBlock[d], endBlock[d],
    scanErr[d], resumed[d], lastRange[d], covered[d], written[d],
    latestBlock[d], attempts[d], logs[d]>>

\* C12 (as claimed): a connection that read N from its checkpoint file
\* fetches as its first range one that begins at block N+1.
C12_ResumeAfterCheckpoint ==
  \A c \in Chains :
    (RangeInHand(c) /\ resumed[c] /= <<>> /\ lastRange[c] = <<>>)
      => startBlock[c] = resumed[c][1] + 1

\* C12 (amended): a connection that read N from its checkpoint file fetches
\* as its first range one that begins at block N, every later range begins
\* one block after the end of the range before it, and no range has a
\* block below N.
C12_ResumeAtCheckpoint ==
  \A c \in Chains :
    (RangeInHand(c) /\ resumed[c] /= <<>>)
      => /\ lastRange[c] = <<>> => startBlock[c] = resumed[c][1]
         /\ lastRange[c] /= <<>> => startBlock[c] = lastRange[c][2] + 1
         /\ resumed[c][1] <= startBlock[c]
         /\ startBlock[c] <= endBlock[c]

\* C12's case: after a restart, with blocks dispatched before it, the
\* connection has fetched its first range from the value of the file.
C12_Witness ==
  \E c \in Chains :
    /\ scanPc[c] = "logs"
    /\ resumed[c] /= <<>>
    /\ lastRange[c] = <<>>
    /\ covered[c] /= {}

\* C13: whenever the checkpoint file of a chain holds a number P, every
\* block from the configured start block up to P-1 is in a range that was
\* fetched and whose logs were all handed to processEvent (before P was
\* written, as this holds in the state the write leaves).
C13_CoveredBelowCheckpoint ==
  \A c \in Chains :
    Readable(c) => Covers(covered[c], StartBlock(c), Persisted(c) - 1)

\* C13's case: a connection resumed from the file and the file now holds a
\* larger number, while blocks at or above it are dispatched already (a
\* save has failed since: they will be fetched again after a restart).
C13_Witness ==
  \E c \in Chains :
    /\ Readable(c)
    /\ resumed[c] /= <<>>
    /\ Persisted(c) > resumed[c][1]
    /\ \E r \in covered[c] : r[2] >= Persisted(c)

\* C14: the number in a chain's checkpoint file never decreases, also not
\* across a failed write that left the file without a number; a range a
\* connection dispatches lies above the range it dispatched before; and
\* the cursor grows with every range it is moved past.
C14_CheckpointMonotone ==
  [][ \A c \in Chains :
        /\ ( /\ file'[LastBlockFile(c)].exists
             /\ ~Unmarshal(file'[LastBlockFile(c)].data).err
             /\ written[c] /= <<>> )
           => Unmarshal(file'[LastBlockFile(c)].data).value >= written[c][1]
        /\ (Readable(c) /\ written[c] /= <<>>) => Persisted(c) = written[c][1]
        /\ (lastRange[c] /= <<>> /\ lastRange'[c] /= <<>>
             /\ lastRange'[c] /= lastRange[c])
           => lastRange'[c][1] > lastRange[c][2]
        /\ (scanPc[c] = "save" /\ scanPc'[c] = "loop")
           => startBlock'[c] > startBlock[c] ]_vars

\* C14's case: a connection resumed from the file, dispatched two ranges
\* and wrote a number above the one it resumed from.
C14_Witness ==
  \E c \in Chains :
    /\ resumed[c] /= <<>>
    /\ lastRange[c] /= <<>>
    /\ lastRange[c][1] > resumed[c][1]
    /\ written[c] /= <<>>
    /\ written[c][1] > lastRange[c][1]

\* ------------------------------------------------------- sweep vocabulary
\* the step is a tick of checkDatabase
TickStep == tick' /= tick

\* the alerts among them that report the row
AlertsOf(alerts, m) == { i \in 1..Len(alerts) : alerts[i].meson = m }

\* the requests a table of SpecSweep can hold a row of
SweepIDs ==
  { r \in ReqIDs : \E d \in TokenDecimals : Tracked(r, d) }
    \cup {PendingID, MatchedID}

\* C15: a tick whose query succeeds raises one alert for every row with
\* is_check false, be its leg B empty or its amounts unequal, and none for
\* a row with is_check true; no tick changes a row or a checkpoint file.
C15_SweepCoverage ==
  [][ TickStep =>
        /\ store' = store
        /\ file' = file
        /\ ~sweepErr' =>
             /\ \A r \in DOMAIN store :
                  Cardinality(AlertsOf(swept', store[r])) =
                    IF store[r].IsCheck THEN 0 ELSE 1
             /\ \A i \in 1..Len(swept') :
                  /\ swept'[i].site = "timeout"
                  /\ swept'[i].meson.ReqID \in DOMAIN store
                  /\ swept'[i].meson = store[swept'[i].meson.ReqID] ]_vars

\* C15's case: a tick has alerted a row without leg B and a row with
\* unequal amounts, and the table holds a row with is_check true.
C15_Witness ==
  /\ ~sweepErr
  /\ \E i \in 1..Len(swept) : swept[i].meson.ChainB = ""
  /\ \E i \in 1..Len(swept) :
       /\ swept[i].meson.ChainB /= ""
       /\ swept[i].meson.AmountA /= swept[i].meson.AmountB
  /\ \E r \in DOMAIN store : store[r].IsCheck

\* the row of request r has leg A only
LegAOnly(r) == r \in DOMAIN store /\ store[r].ChainB = ""

\* the step is a tick whose query succeeds and which alerts request r
TickAlerts(r) ==
  /\ TickStep
  /\ ~sweepErr'
  /\ \E i \in 1..Len(swept') : swept'[i].meson.ReqID = r

\* C16: with the ticker firing for ever, a row that from some point on
\* stays with leg A only is alerted by a tick again and again (that no
\* tick with a working query passes it over is part of C15).
C16_StuckTransferAlerted ==
  \A r \in SweepIDs :
    <>[]LegAOnly(r) => []<><<TickAlerts(r)>>_vars

\* C16's case: a tick has alerted a row whose leg B is empty and which the
\* engine inserted in this run.
C16_Witness ==
  \E r \in ReqIDs :
    /\ r \in DOMAIN store
    /\ store[r].ChainB = ""
    /\ ~sweepErr
    /\ \E i \in 1..Len(swept) : swept[i].meson = store[r]

\* ------------------------------------------------------- codec vocabulary
RECURSIVE Pow2(_)
Pow2(n) == IF n = 0 THEN 1 ELSE 2 * Pow2(n - 1)

\* bit p of a byte string, bit 0 the least significant of its last byte
BitOf(bytes, p) == (bytes[Len(bytes) - (p \div 8)] \div Pow2(p % 8)) % 2

\* bit p of a number below 256
BitOfByte(n, p) == (n \div Pow2(p)) % 2

\* C17: the token index isMyToken compares is bits [192,200) of the
\* identifier, the amount getAmountFromReqID extracts is bits [128,192) and
\* the time getCreatedTimeFromReqID returns is bits [208,248); so the
\* decoders return the token index, amount and time the identifier was
\* put together from, whatever its other bits are.
C17_FieldExtraction ==
  LET id == ReqIdIn(codecIn) IN
  /\ codecOut.isMyToken /= <<>> =>
       /\ codecOut.isMyToken[1] =
            (\A j \in 0..7 :
               BitOf(id, 192 + j) = BitOfByte(codecIn.myTokenIndex, j))
       /\ codecOut.isMyToken[1] = (codecIn.token = codecIn.myTokenIndex)
  /\ codecOut.createdTime /= <<>> =>
       /\ \A j \in 0..63 :
            BitOf(codecOut.createdTime[1], j) =
              IF j < 40 THEN BitOf(id, 208 + j) ELSE 0
       /\ codecOut.createdTime[1] = Zeros(3) \o codecIn.created
  /\ codecOut.amount /= <<>> =>
       /\ codecOut.amount[1].err = (\A j \in 0..63 : BitOf(id, 128 + j) = 0)
       /\ (codecIn.decimals = CanonicalDecimals /\ ~codecOut.amount[1].err)
            => /\ \A j \in 0..63 :
                    BitOf(codecOut.amount[1].amount, j) = BitOf(id, 128 + j)
               /\ codecOut.amount[1].amount = codecIn.amount

\* C17's case: the three decoders have returned for an identifier whose
\* bits outside the three fields are all set.
C17_Witness ==
  /\ codecIn.top = 255
  /\ codecIn.gap = 255
  /\ codecIn.low = [i \in 1..16 |-> 255]
  /\ codecIn.decimals = CanonicalDecimals
  /\ codecOut.isMyToken = <<TRUE>>
  /\ codecOut.createdTime = <<Zeros(3) \o <<1, 2, 3, 4, 5>>>>
  /\ codecOut.amount = <<[amount |-> ToUint64(5), err |-> FALSE]>>

\* C18 (as claimed): getAmountFromReqID returns a non-zero raw amount as
\* it is for 6 decimals, 1000000 for 18 decimals and the raw amount 10^18,
\* and 0 without an error for 0 decimals and the raw amount 5.
C18_RescaleReference ==
  codecOut.amount /= <<>> =>
    /\ (codecIn.decimals = 6 /\ codecIn.amount /= Zeros(8))
         => codecOut.amount[1] = [amount |-> codecIn.amount, err |-> FALSE]
    /\ ( /\ codecIn.decimals = 18
         /\ codecIn.amount = <<13, 224, 182, 179, 167, 100, 0, 0>> )
         => codecOut.amount[1] = [amount |-> ToUint64(1000000), err |-> FALSE]
    /\ (codecIn.decimals = 0 /\ codecIn.amount = ToUint64(5))
         => codecOut.amount[1] = [amount |-> Zeros(8), err |-> FALSE]

\* the steps of chain d's scanner and the tick of checkDatabase that can
\* be taken
EnabledOf(d) ==
  <<ENABLED Connect(d), ENABLED HeadQuery(d), ENABLED FilterLogs(d),
    ENABLED Dispatch(d), ENABLED Save(d), ENABLED CheckDatabase>>

\* C19: a step of one chain's scanner, failed or not (the connection, the
\* head query, the fetch, the read or the write of its checkpoint), leaves
\* every other chain's checkpoint file, cursor and position as they were,
\* and leaves the steps of the other chains' scanners and the tick of
\* checkDatabase that could be taken before it able to be taken.
C19_ChainIndependence ==
  [][\A c \in Chains :
       ScanStep(c) =>
         /\ \A d \in Chains \ {c} :
              /\ ScannerOf(d)' = ScannerOf(d)
              /\ EnabledOf(d)' = EnabledOf(d)
         /\ UNCHANGED sweepVars]_vars

\* C19's case: one chain's scanner has failed at its checkpoint write
\* while the other one, past its first range, has a range in hand.
C19_Witness ==
  /\ scanErr["BSC"] = "save"
  /\ written["Ethereum"] /= <<>>
  /\ RangeInHand("Ethereum")

\* ---------------------------------------------------- notifier vocabulary
\* what meson_handle returns: nil or the error of the branch that ended it
Returns == {"nil", "query", "chainB", "update", "pair", "amount", "insert"}

\* the second half of a meson_handle call
MesonHandleEnd(c) ==
  \/ MesonHandleConflict(c)
  \/ MesonHandleUpdate(c)
  \/ MesonHandleInsert(c)

\* the table after the second half of chain c's call: as it was, with the
\* row the call had found updated, or with the row of its leg inserted
TablesAfter(c) ==
  {store, InsertMeson(store, InsertRow(CurrentLeg(c)))} \cup
    { UpdateMeson(store, UpdateRow(existingMeson[c][i], CurrentLeg(c))) :
        i \in 1..Len(existingMeson[c]) }

\* the channels answered every send of the alerts as sends says
SentAs(alerts, sends) ==
  \A i \in 1..Len(alerts) :
    /\ alerts[i].telegram = Channel(sends.telegram)
    /\ alerts[i].lark = Channel(sends.lark)

\* both sends return nil
BothSent == [telegram |-> TRUE, lark |-> TRUE]

\* C20: whatever a meson_handle call whose alert went out on both
\* channels returns and leaves in the table, it can return and leave the
\* same with every other combination of a successful or failed Telegram
\* send and a successful or failed Lark send, the Lark send attempted
\* after a failed Telegram send included; so can a tick of checkDatabase
\* whose alerts went out, which leaves the table as it is.
C20_NotifierNonFatal ==
  [][/\ \A c \in Chains :
          MesonHandleEnd(c) =>
            /\ ret'[c] \in Returns
            /\ store' \in TablesAfter(c)
            /\ \A r \in Returns, table \in TablesAfter(c) :
                 ( /\ ret'[c] = r
                   /\ store' = table
                   /\ Len(notified'[c]) = 1
                   /\ SentAs(notified'[c], BothSent) )
                   => \A sends \in SendOutcomes :
                        ENABLED ( /\ MesonHandleEnd(c)
                                  /\ ret'[c] = r
                                  /\ store' = table
                                  /\ Len(notified'[c]) = 1
                                  /\ SentAs(notified'[c], sends) )
     /\ CheckDatabase =>
          /\ store' = store
          /\ \A n \in 1..Cardinality(DOMAIN store) :
               (~sweepErr' /\ Len(swept') = n /\ SentAs(swept', BothSent))
                 => \A sends \in SendOutcomes :
                      ENABLED ( /\ CheckDatabase
                                /\ ~sweepErr'
                                /\ store' = store
                                /\ Len(swept') = n
                                /\ SentAs(swept', sends) )]_vars

\* C20's case: a meson_handle call has returned its error after an alert
\* whose Telegram send failed and whose Lark send went out, and a tick has
\* sent an alert the same way.
C20_Witness ==
  /\ \E c \in Chains :
       /\ ret[c] \in {"chainB", "pair", "amount"}
       /\ notified[c] /= <<>>
       /\ notified[c][1].telegram = "failed"
       /\ notified[c][1].lark = "sent"
  /\ swept /= <<>>
  /\ swept[1].telegram = "failed"
  /\ swept[1].lark = "sent"

\* -------------------------------------------------------- row vocabulary
\* task c's step ends a meson_handle call that found no row and whose
\* InsertMeson succeeded
InsertedStep(c) ==
  /\ pc[c] = "found"
  /\ pc'[c] = "idle"
  /\ existingMeson[c] = <<>>
  /\ ret'[c] = "nil"

\* the leg-A columns and the timestamp of a row
LegAOf(m) == <<m.ChainA, m.AmountA, m.ActionA, m.TxHashA, m.Timestamp>>

\* C21: a meson_handle call that found no row and whose insert succeeded
\* has added, to a table without a row for the request, the row with the
\* leg as leg A, the leg's createdTime as timestamp, leg B empty and
\* is_check false, and has sent no alert; and no step removes a row or
\* changes its chain_a, amount_a, action_a, tx_hash_a or timestamp.
C21_InsertAndLegAFrame ==
  [][/\ \A c \in Chains :
          InsertedStep(c) =>
            LET leg == CurrentLeg(c) IN
            /\ leg.reqID \notin DOMAIN store
            /\ DOMAIN store' = DOMAIN store \cup {leg.reqID}
            /\ LegAOf(store'[leg.reqID]) =
                 <<leg.chainName, leg.amount, leg.eventName, leg.txHash,
                   leg.createdTime>>
            /\ LegBOf(store'[leg.reqID]) = <<"", 0, "", "", FALSE>>
            /\ store'[leg.reqID].ReqID = leg.reqID
            /\ notified'[c] = <<>>
     /\ \A id \in DOMAIN store :
          /\ id \in DOMAIN store'
          /\ LegAOf(store'[id]) = LegAOf(store[id])]_vars

\* C21's case: a row that was inserted by one chain's call has since been
\* given its leg B by the other chain's call.
C21_Witness ==
  \E c \in Chains : \E d \in Chains \ {c} :
    /\ delivered[c] /= <<>>
    /\ delivered[d] /= <<>>
    /\ ret[d] \in {"nil", "pair", "amount"}
    /\ pc[d] = "idle"
    /\ delivered[c][1].reqID \in DOMAIN store
    /\ store[delivered[c][1].reqID] =
         UpdateRow(InsertRow(delivered[c][1]), CurrentLeg(d))

\* ------------------------------------------------------ range vocabulary
\* scanner c's step is a FilterLogs call that failed
FetchFailedStep(c) == scanPc[c] = "fetch" /\ scanErr'[c] = "fetch"

\* scanner c's step is a saveLastBlockNumber call that failed
SaveFailedStep(c) == scanPc[c] = "save" /\ scanErr'[c] = "save"

\* scanner c's step is a head query that found the head within the margin
TooCloseStep(c) ==
  /\ scanPc[c] = "loop"
  /\ attempts'[c] /= attempts[c]
  /\ latestBlock'[c] /= 0
  /\ latestBlock'[c] <= startBlock[c] + 100

\* the checkpoint the iteration of scanner c works from: the number the
\* connection read from the file (the configured start block without a
\* file), then the number it handed to saveLastBlockNumber last
IterationCheckpoint(c) ==
  IF lastRange[c] /= <<>> THEN lastRange[c][2] + 1
  ELSE IF resumed[c] /= <<>> THEN resumed[c][1]
  ELSE StartBlock(c)

\* the smaller of two numbers
Min(a, b) == IF a < b THEN a ELSE b

\* C22: a FilterLogs call that fails dispatches no log (no block becomes
\* covered, the engine is not called), leaves the cursor and the
\* checkpoint files as they are and takes the scanner back to the head of
\* its loop; and the steps at the head of the loop, up to the next
\* FilterLogs call, leave the cursor as it is.
C22_FetchFailureKeepsCursor ==
  [][\A c \in Chains :
       /\ FetchFailedStep(c) =>
            /\ startBlock'[c] = startBlock[c]
            /\ file' = file
            /\ covered' = covered
            /\ lastRange' = lastRange
            /\ UNCHANGED engineVars
            /\ scanPc'[c] = "loop"
       /\ (scanPc[c] = "loop" /\ scanPc'[c] \in {"loop", "fetch"})
            => startBlock'[c] = startBlock[c]]_vars

\* C22's case: past its first range and its first write, a scanner has
\* had a FilterLogs call fail and is back at the head of its loop.
C22_Witness ==
  \E c \in Chains :
    /\ scanErr[c] = "fetch"
    /\ lastRange[c] /= <<>>
    /\ written[c] /= <<>>

\* C23 (as claimed): the range a scanner fetches next after a failed
\* checkpoint write is the range it dispatched before the write.
C23_RefetchAfterFailedWrite ==
  [][\A c \in Chains :
       (scanPc[c] = "loop" /\ scanErr[c] = "save" /\ scanPc'[c] = "fetch")
         => <<startBlock'[c], endBlock'[c]>> = lastRange[c]]_vars

\* C23 (amended): a failed checkpoint write takes the scanner back to the
\* head of its loop with the cursor one block past the range it
\* dispatched, and the range it fetches next begins there; the file is
\* left as it was or without a number, so that only a connection made
\* after a restart begins at an earlier block.
C23_ContinuePastFailedWrite ==
  [][\A c \in Chains :
       /\ SaveFailedStep(c) =>
            /\ scanPc'[c] = "loop"
            /\ startBlock'[c] = lastRange[c][2] + 1
            /\ \/ file' = file
               \/ /\ file'[LastBlockFile(c)].exists
                  /\ Unmarshal(file'[LastBlockFile(c)].data).err
       /\ (scanPc[c] = "loop" /\ scanErr[c] = "save" /\ scanPc'[c] = "fetch")
            => startBlock'[c] = lastRange[c][2] + 1]_vars

\* C23's case: the write after a range has failed and the scanner has the
\* range after it in hand, the file still holding an earlier number.
C23_Witness ==
  \E c \in Chains :
    /\ RangeInHand(c)
    /\ lastRange[c] /= <<>>
    /\ startBlock[c] = lastRange[c][2] + 1
    /\ Readable(c)
    /\ Persisted(c) < startBlock[c]

\* C24 (as claimed): a range is in hand only with a head above the
\* checkpoint by more than 100, and it is [checkpoint+1, end] with end the
\* smaller of checkpoint+5000 and the head; a head query that finds the
\* head within the margin fetches nothing and changes no file.
C24_RangeAfterCheckpoint ==
  [][\A c \in Chains :
       /\ RangeInHand(c)' =>
            /\ latestBlock'[c] > IterationCheckpoint(c)' + 100
            /\ startBlock'[c] = IterationCheckpoint(c)' + 1
            /\ endBlock'[c] =
                 Min(IterationCheckpoint(c)' + 5000, latestBlock'[c])
       /\ TooCloseStep(c) =>
            /\ scanPc'[c] = "loop"
            /\ file' = file
            /\ startBlock'[c] = startBlock[c]]_vars

\* C24 (amended): a range is in hand only with a head above the
\* checkpoint by more than 100, and it is [checkpoint, end] with end the
\* smaller of checkpoint+5000 and the head, the checkpoint being the first
\* block not yet fetched; a head query that finds the head within the
\* margin fetches nothing and changes no file.
C24_RangeFromCheckpoint ==
  [][\A c \in Chains :
       /\ RangeInHand(c)' =>
            /\ latestBlock'[c] > IterationCheckpoint(c)' + 100
            /\ startBlock'[c] = IterationCheckpoint(c)'
            /\ endBlock'[c] =
                 Min(IterationCheckpoint(c)' + 5000, latestBlock'[c])
       /\ TooCloseStep(c) =>
            /\ scanPc'[c] = "loop"
            /\ file' = file
            /\ startBlock'[c] = startBlock[c]]_vars

\* C24's case: a scanner has fetched a range of a full step below the
\* head, and a range that ends at the head; and a scanner waits with a
\* head inside the margin.
C24_Witness ==
  /\ RangeInHand("Ethereum")
  /\ endBlock["Ethereum"] = startBlock["Ethereum"] + 5000
  /\ lastRange["Ethereum"] /= <<>>
  /\ lastRange["Ethereum"][2] = 1101
  /\ scanPc["BSC"] = "loop"
  /\ latestBlock["BSC"] /= 0
  /\ latestBlock["BSC"] <= startBlock["BSC"] + 100

\* C25 (as claimed): every block of a range in hand lies at least 100
\* blocks below the head the iteration observed.
C25_RangeBelowMargin ==
  \A c \in Chains :
    RangeInHand(c) => endBlock[c] + 100 <= latestBlock[c]

\* ------------------------------------------------------ retry vocabulary
\* scanner c's step is a connection or a head query
AttemptStep(c) == attempts'[c] /= attempts[c]

\* scanner c's step is an RPC call that failed: the dial, the head query
\* or FilterLogs
RpcFailedStep(c) ==
  \/ AttemptStep(c) /\ scanErr'[c] \in {"connect", "head"}
  \/ FetchFailedStep(c)

\* scanner c's step is a read of its checkpoint file that failed
ReadFailedStep(c) == AttemptStep(c) /\ scanErr'[c] = "read"

\* scanner c's step has written its checkpoint
AdvanceStep(c) == scanPc[c] = "save" /\ scanErr'[c] = ""

\* C26 (as claimed, and with more granted: the process is not ended and
\* no read or write of a checkpoint file that holds a number fails
\* either): a scanner does not go on for ever without writing its
\* checkpoint unless, again and again, an RPC call fails or the head is
\* within the margin.
C26_RetryUntilAdvance ==
  \A c \in Chains :
    []<><<\/ AdvanceStep(c)
          \/ RpcFailedStep(c)
          \/ TooCloseStep(c)
          \/ SaveFailedStep(c)
          \/ ReadFailedStep(c) /\ Readable(c)
          \/ Restart
          \/ \E d \in Chains : DispatchPanic(d)>>_vars

\* ------------------------------------------------ dropped-event vocabulary
\* the identifiers of the logs processEvent drops: bits [192,200) are not
\* the configured token index, or bits [128,192) are all zero
DroppedIDs ==
  { r \in ReqIDs :
      \/ \E j \in 0..7 : BitOf(r, 192 + j) /= BitOfByte(MesonIndex, j)
      \/ \A j \in 0..63 : BitOf(r, 128 + j) = 0 }

\* a step of processEvent that drops its log
DroppedStep == ~skipped /\ skipped'

RECURSIVE Pow10(_)
Pow10(n) == IF n = 0 THEN 1 ELSE 10 * Pow10(n - 1)

\* the 8-byte amount is a number below the bound (a bound below 2^24)
Below(amount, bound) ==
  /\ SubSeq(amount, 1, 5) = Zeros(5)
  /\ NumberOfBytes(SubSeq(amount, 6, 8)) < bound

\* C28: getAmountFromReqID returns an error exactly when the amount field
\* of the identifier is zero, and then no amount; a non-zero field below
\* 10^(6-decimals) gives the amount 0 without an error, which processEvent
\* hands to meson_handle as the leg's amount 0.
C28_ZeroAmountRule ==
  codecOut.amount /= <<>> =>
    LET out == codecOut.amount[1] IN
    /\ out.err <=> (codecIn.amount = Zeros(8))
    /\ out.err => out.amount = Zeros(8)
    /\ ( /\ codecIn.amount /= Zeros(8)
         /\ codecIn.decimals < CanonicalDecimals
         /\ Below(codecIn.amount,
                  Pow10(CanonicalDecimals - codecIn.decimals)) )
         => /\ ~out.err
            /\ out.amount = Zeros(8)
            /\ Float64(out.amount) = 0

\* C28's case: getAmountFromReqID has returned for the amount field 5 of
\* a token of 0 decimals.
C28_Witness ==
  /\ codecIn.amount = ToUint64(5)
  /\ codecIn.decimals = 0
  /\ codecOut.amount = <<[amount |-> Zeros(8), err |-> FALSE]>>

\* ---------------------------------------------- exact (128-bit) reference
\* a uint64 as a 16-byte number
Wide(u) == Zeros(8) \o u

WideDigit(x, k) == x[16 - k]

RECURSIVE WideColumnSum(_, _, _, _)
WideColumnSum(x, y, k, i) ==
  IF i > k THEN 0
  ELSE WideDigit(x, i) * WideDigit(y, k - i) + WideColumnSum(x, y, k, i + 1)

RECURSIVE WideColumn(_, _, _)
WideColumn(x, y, k) ==
  WideColumnSum(x, y, k, 0)
    + (IF k = 0 THEN 0 ELSE WideColumn(x, y, k - 1) \div 256)

\* the product of two 16-byte numbers, exact while it is below 2^128
WideMul(x, y) ==
  << WideColumn(x, y, 15) % 256, WideColumn(x, y, 14) % 256,
     WideColumn(x, y, 13) % 256, WideColumn(x, y, 12) % 256,
     WideColumn(x, y, 11) % 256, WideColumn(x, y, 10) % 256,
     WideColumn(x, y, 9) % 256, WideColumn(x, y, 8) % 256,
     WideColumn(x, y, 7) % 256, WideColumn(x, y, 6) % 256,
     WideColumn(x, y, 5) % 256, WideColumn(x, y, 4) % 256,
     WideColumn(x, y, 3) % 256, WideColumn(x, y, 2) % 256,
     WideColumn(x, y, 1) % 256, WideColumn(x, y, 0) % 256 >>

\* 10^n as a 16-byte number, for n up to 19
RECURSIVE WidePow10(_)
WidePow10(n) ==
  IF n = 0 THEN Wide(ToUint64(1))
  ELSE WideMul(WidePow10(n - 1), Wide(ToUint64(10)))

\* the carry into byte k of the sum of two 16-byte numbers
RECURSIVE WideCarry(_, _, _)
WideCarry(x, y, k) ==
  IF k = 0 THEN 0
  ELSE (WideDigit(x, k - 1) + WideDigit(y, k - 1) + WideCarry(x, y, k - 1))
         \div 256

\* the sum of two 16-byte numbers, exact while it is below 2^128
WideAdd(x, y) ==
  [i \in 1..16 |-> (x[i] + y[i] + WideCarry(x, y, 16 - i)) % 256]

\* x < y for two 16-byte numbers
WideLess(x, y) ==
  \E i \in 1..16 : x[i] < y[i] /\ \A j \in 1..(i - 1) : x[j] = y[j]

\* C29 (as claimed): for a non-zero amount field a, getAmountFromReqID
\* returns the exact integer a * 10^(decimals-6) when decimals is above 6,
\* the product not reduced modulo 2^64, and the floor of
\* a / 10^(6-decimals) when decimals is below 6.
C29_ExactUpScaling ==
  (codecOut.amount /= <<>> /\ codecIn.amount /= Zeros(8)) =>
    LET out == codecOut.amount[1]
        a == Wide(codecIn.amount)
        q == Wide(out.amount)
    IN /\ ~out.err
       /\ codecIn.decimals > CanonicalDecimals =>
            q = WideMul(a, WidePow10(codecIn.decimals - CanonicalDecimals))
       /\ codecIn.decimals < CanonicalDecimals =>
            LET D == WidePow10(CanonicalDecimals - codecIn.decimals)
                qD == WideMul(q, D)
            IN /\ ~WideLess(a, qD)
               /\ WideLess(a, WideAdd(qD, D))

\* --------------------------------------------- persistence vocabulary
\* the row the table holds for an identifier: <<row>>, or <<>> for none
RecordOf(table, reqId) ==
  IF reqId \in DOMAIN table THEN <<table[reqId]>> ELSE <<>>

\* task c's step is a FindMesonByReqID that failed
LookupFailedStep(c) == delivered'[c] /= delivered[c] /\ faults' /= faults

\* task c's step is an InsertMeson or UpdateMeson that failed: the store
\* refused it, or the key of the insert is in the table
WriteFailedStep(c) ==
  /\ pc[c] = "found"
  /\ pc'[c] = "idle"
  /\ \/ faults' /= faults
     \/ existingMeson[c] = <<>> /\ CurrentLeg(c).reqID \in DOMAIN store

\* C30 (as claimed): a meson_handle call whose lookup, insert or update
\* fails returns the error of that operation and raises no alert, and the
\* row of its identifier is then what it was when the call began: no row
\* after a failed insert, the row the lookup found after a failed update.
C30_FailedCallKeepsRecord ==
  [][\A c \in Chains :
       /\ LookupFailedStep(c) =>
            /\ ret'[c] = "query"
            /\ notified'[c] = <<>>
            /\ RecordOf(store', CurrentLeg(c)'.reqID)
                 = RecordOf(store, CurrentLeg(c)'.reqID)
       /\ WriteFailedStep(c) =>
            /\ ret'[c] = (IF existingMeson[c] = <<>> THEN "insert"
                                                     ELSE "update")
            /\ notified'[c] = <<>>
            /\ RecordOf(store', CurrentLeg(c).reqID) = existingMeson[c]
    ]_vars

\* C33 (as claimed): every row whose leg B is set has a ChainB that
\* differs from its ChainA.
C33_LegsFromTwoChains ==
  \A r \in DOMAIN store :
    ChainBSet(store[r]) => store[r].ChainB /= store[r].ChainA

\* ------------------------------------------------------- log vocabulary
\* scanner c's step is its loop over the logs of the range in hand
LoopOverLogsStep(c) == Dispatch(c) \/ DispatchPanic(c)

\* C32 (as claimed): whatever logs of the contract the fetch returned, one
\* with fewer than three topics included, the loop over them comes to its
\* end with the scanner alive and the whole range handed on, and leaves
\* every other scanner where it was.
C32_MalformedLogsHarmless ==
  [][\A c \in Chains :
       LoopOverLogsStep(c) =>
         /\ scanPc'[c] = "save"
         /\ Covers(covered'[c], startBlock[c], endBlock[c])
         /\ \A d \in Chains \ {c} : ScannerOf(d)' = ScannerOf(d)
    ]_vars

\* ---------------------------------------------------------- the pipeline
\* The scanners and the engine together: the calls of a chain's task are
\* the ones its scanner's loop over the fetched logs makes for the mint
\* and burn logs of the range, and the loop ends, and the checkpoint is
\* written, after the last of them has returned.

\* the events of the logs of a batch that go to processEvent
EventsOf(batch) ==
  { batch[i].event :
      i \in { j \in 1..Len(batch) : handleLog(batch[j]) = "processEvent" } }

\* the events of the legs task c has handed to meson_handle
DeliveredEvents(c) ==
  { delivered[c][i].eventName : i \in 1..Len(delivered[c]) }

\* a step of chain c's scanner outside its loop over the logs, with the
\* node answering every call and the checkpoint file written; a chain
\* holds one log per event kind, each with its three topics
PipeScan(c) ==
  /\ \/ Connect(c)
     \/ HeadQuery(c)
     \/ FilterLogs(c)
     \/ Save(c)
  /\ scanErr'[c] = ""
  /\ \A i \in 1..Len(logs'[c]) : handleLog(logs'[c][i]) /= "panic"
  /\ logs'[c] /= logs[c] => EventsOf(logs'[c]) \cap DeliveredEvents(c) = {}

\* processEvent and meson_handle's lookup for a log of the batch in hand
\* that has not been handled
PipeFind(c) ==
  /\ scanPc[c] = "logs"
  /\ MesonHandleFind(c)
  /\ CurrentLeg(c)'.eventName \in EventsOf(logs[c]) \ DeliveredEvents(c)

\* the rest of the meson_handle call
PipeEnd(c) == MesonHandleEnd(c)

\* the loop over the logs ends: every mint and burn log of the batch has
\* been handed to meson_handle and the call has returned
PipeDispatch(c) ==
  /\ pc[c] = "idle"
  /\ EventsOf(logs[c]) \subseteq DeliveredEvents(c)
  /\ Dispatch(c)

PipeNext ==
  \E c \in Chains :
    \/ PipeScan(c)
    \/ PipeFind(c)
    \/ PipeEnd(c)
    \/ PipeDispatch(c)

SpecPipeline == ScanSpecInit /\ [][PipeNext]_vars

\* the leg is leg A or leg B of the row of its request
Reflected(leg) ==
  /\ leg.reqID \in DOMAIN store
  /\ \/ LegAOf(store[leg.reqID]) =
          <<leg.chainName, leg.amount, leg.eventName, leg.txHash,
            leg.createdTime>>
     \/ SameAsLegB(store[leg.reqID], leg)

\* the call task c made last was turned down with the conflict alert
RejectedWithAlert(c) ==
  /\ ret[c] = "chainB"
  /\ \E i \in 1..Len(notified[c]) : notified[c][i].site = "conflict"

\* the file of chain c holds the block after the range the scanner
\* handled last, and no later range is being handled
CheckpointPast(c) ==
  /\ lastRange[c] /= <<>>
  /\ scanPc[c] \notin {"logs", "save"}
  /\ Readable(c)
  /\ Persisted(c) = lastRange[c][2] + 1

\* C31 (as claimed): once the checkpoint file of a chain has moved past
\* the range whose logs its task handled last, the leg of the task's last
\* meson_handle call is leg A or leg B of the row of its request, or the
\* call was turned down with the conflict alert.
C31_NoLegLostBehindCheckpoint ==
  \A c \in Chains :
    (CheckpointPast(c) /\ delivered[c] /= <<>>) =>
      Reflected(CurrentLeg(c)) \/ RejectedWithAlert(c)

====
